---- MODULE Spec2Model ----
(***************************************************************************)
(* A model of src/app.py, the Streamlit finance dashboard: one run of the  *)
(* script over an uploaded CSV file, from load_csv through the column      *)
(* mapping, the first KPI block and its guarded charts, the sidebar        *)
(* filters, the second KPI block and its unguarded charts, to the final    *)
(* table and download.                                                     *)
(*                                                                         *)
(* Column names are sequences of one-character strings, so that the        *)
(* substring tests of load_csv and autosuggest are computed.  A cell is a  *)
(* record [t, s, n]: a string as read from the file, a number or a date    *)
(* after coercion, or NaN/NaT.  A row keeps its pandas index (idx).        *)
(***************************************************************************)
EXTENDS Integers, Sequences, FiniteSets, TLC

VARIABLES
    pc,               \* position of the run in the script
    file,             \* the value of st.file_uploader (line 33)
    df,               \* the data frame
    suggested,        \* suggested_date / suggested_amount / suggested_category
    date_col, amount_col, category_col,   \* the sidebar selectboxes
    filters,          \* start, end, selected_cat as returned by the widgets
    total_amount, num_transactions, monthly_expense, avg_expense,
    category_totals,  \* df.groupby(category_col)[amount_col].sum() (line 220)
    rendered,         \* the derived views written to the page, in order
    messages,         \* st.info / st.error / st.warning calls, in order
    s_cols, s_keywords, s_result, s_done  \* a call of autosuggest on its own

vars == <<pc, file, df, suggested, date_col, amount_col, category_col, filters,
          total_amount, num_transactions, monthly_expense, avg_expense,
          category_totals, rendered, messages,
          s_cols, s_keywords, s_result, s_done>>

pipeVars == <<pc, file, df, suggested, date_col, amount_col, category_col,
              filters, total_amount, num_transactions, monthly_expense,
              avg_expense, category_totals, rendered, messages>>

suggestVars == <<s_cols, s_keywords, s_result, s_done>>

-----------------------------------------------------------------------------
(* Bounds *)

MaxRows == 2
MaxCols == 2
MaxKeywords == 2

-----------------------------------------------------------------------------
(* Values *)

None == <<"None">>

Str(s) == [t |-> "str", s |-> s, n |-> 0]
Num(n) == [t |-> "num", s |-> "", n |-> n]
Date(d) == [t |-> "date", s |-> "", n |-> d]
NaN == [t |-> "nan", s |-> "", n |-> 0]
Unset == [t |-> "unset", s |-> "", n |-> 0]

isna(c) == c.t = "nan"

\* The text of the cells the modelled files hold, and what pandas parses it to.
NumLit == ("100" :> 100)
DateLit == ("2024-01-05" :> 20240105) @@ ("2024-01-20" :> 20240120)
           @@ ("2024-02-01" :> 20240201)
CategoryRank == ("food" :> 1) @@ ("transport" :> 2)

to_numeric(c) ==
    IF c.t = "num" THEN c
    ELSE IF c.t = "str" /\ c.s \in DOMAIN NumLit THEN Num(NumLit[c.s])
    ELSE NaN

to_datetime(c) ==
    IF c.t = "date" THEN c
    ELSE IF c.t = "str" /\ c.s \in DOMAIN DateLit THEN Date(DateLit[c.s])
    ELSE NaN

to_period_M(d) == d \div 100

-----------------------------------------------------------------------------
(* Strings as sequences of characters *)

lower_char(ch) ==
    CASE ch = "A" -> "a"
      [] ch = "C" -> "c"
      [] ch = "D" -> "d"
      [] ch = "W" -> "w"
      [] OTHER -> ch

\* c.lower().replace(" ", "_")
normalize_name(c) ==
    [i \in 1..Len(c) |-> IF lower_char(c[i]) = " " THEN "_" ELSE lower_char(c[i])]

\* Python's `k in c` on strings
contains(c, k) ==
    \E i \in 0..(Len(c) - Len(k)) : SubSeq(c, i + 1, i + Len(k)) = k

kw_date == <<"d", "a", "t", "e">>
kw_txn_date == <<"t", "x", "n", "_", "d", "a", "t", "e">>
kw_transaction_date ==
    <<"t", "r", "a", "n", "s", "a", "c", "t", "i", "o", "n", "_", "d", "a", "t", "e">>
kw_time == <<"t", "i", "m", "e">>
kw_amount == <<"a", "m", "o", "u", "n", "t">>
kw_amt == <<"a", "m", "t">>
kw_price == <<"p", "r", "i", "c", "e">>
kw_value == <<"v", "a", "l", "u", "e">>
kw_cost == <<"c", "o", "s", "t">>
kw_expense == <<"e", "x", "p", "e", "n", "s", "e">>
kw_total == <<"t", "o", "t", "a", "l">>
kw_income == <<"i", "n", "c", "o", "m", "e">>
kw_category == <<"c", "a", "t", "e", "g", "o", "r", "y">>
kw_cat == <<"c", "a", "t">>
kw_type == <<"t", "y", "p", "e">>
kw_group == <<"g", "r", "o", "u", "p">>

date_keywords == <<kw_date, kw_txn_date, kw_transaction_date, kw_time>>
amount_keywords ==
    <<kw_amount, kw_amt, kw_price, kw_value, kw_cost, kw_expense, kw_total>>
category_keywords == <<kw_category, kw_cat, kw_type, kw_group>>

-----------------------------------------------------------------------------
(* autosuggest *)

RECURSIVE first_col_with(_, _, _)
\* the inner loop: for c in cols: if k in c: return c
first_col_with(cols, k, i) ==
    IF i > Len(cols) THEN None
    ELSE IF contains(cols[i], k) THEN cols[i]
    ELSE first_col_with(cols, k, i + 1)

RECURSIVE autosuggest_from(_, _, _)
\* the outer loop: for k in keywords
autosuggest_from(cols, keywords, j) ==
    IF j > Len(keywords) THEN None
    ELSE IF first_col_with(cols, keywords[j], 1) # None
         THEN first_col_with(cols, keywords[j], 1)
    ELSE autosuggest_from(cols, keywords, j + 1)

RECURSIVE autosuggest_by_column(_, _)
\* the loops nested the other way round: for c in cols: for k in keywords
autosuggest_by_column(cols, keywords) ==
    IF cols = <<>> THEN None
    ELSE IF \E j \in 1..Len(keywords) : contains(Head(cols), keywords[j])
         THEN Head(cols)
    ELSE autosuggest_by_column(Tail(cols), keywords)

autosuggest(cols, keywords) == autosuggest_from(cols, keywords, 1)

-----------------------------------------------------------------------------
(* Data frames *)

NoFrame == [columns |-> <<>>, rows |-> <<>>, ok |-> FALSE]

col_index(frame, col) == CHOOSE i \in 1..Len(frame.columns) : frame.columns[i] = col

cell(frame, row, col) == row.cells[col_index(frame, col)]

\* pd.read_csv: an empty field is read as NaN, the index is 0..n-1
read_csv(f) ==
    [columns |-> f.header,
     rows |-> [i \in 1..Len(f.rows) |->
                 [idx |-> i - 1,
                  cells |-> [j \in 1..Len(f.header) |->
                               IF f.rows[i][j] = "" THEN NaN ELSE Str(f.rows[i][j])]]],
     ok |-> TRUE]

\* pd.to_datetime or pd.to_numeric, both with errors="coerce"
coerce(kind, c) == IF kind = "datetime" THEN to_datetime(c) ELSE to_numeric(c)

\* df[col] = pd.to_<kind>(df[col], errors="coerce") for every col in cols
convert_columns(frame, cols, kind) ==
    [frame EXCEPT !.rows =
        [i \in 1..Len(frame.rows) |->
            [frame.rows[i] EXCEPT !.cells =
                [j \in 1..Len(frame.columns) |->
                    IF frame.columns[j] \in cols
                    THEN coerce(kind, frame.rows[i].cells[j])
                    ELSE frame.rows[i].cells[j]]]]]

columns_where_date(frame) ==
    {frame.columns[j] : j \in {k \in 1..Len(frame.columns) : contains(frame.columns[k], kw_date)}}

columns_where_amount(frame) ==
    {frame.columns[j] : j \in {k \in 1..Len(frame.columns) :
        \/ contains(frame.columns[k], kw_amount)
        \/ contains(frame.columns[k], kw_expense)
        \/ contains(frame.columns[k], kw_income)}}

row_has_na(row) == \E j \in 1..Len(row.cells) : isna(row.cells[j])

\* df.dropna()
dropna(frame) ==
    [frame EXCEPT !.rows = SelectSeq(frame.rows, LAMBDA r : ~row_has_na(r))]

\* df.dropna(subset=[col])
dropna_subset(frame, col) ==
    [frame EXCEPT !.rows = SelectSeq(frame.rows, LAMBDA r : ~isna(cell(frame, r, col)))]

\* the body of load_csv's try block
load_csv(f) ==
    LET renamed == [read_csv(f) EXCEPT
                       !.columns = [j \in 1..Len(f.header) |-> normalize_name(f.header[j])]]
        dated == convert_columns(renamed, columns_where_date(renamed), "datetime")
        numbered == convert_columns(dated, columns_where_amount(dated), "numeric")
    IN dropna(numbered)

-----------------------------------------------------------------------------
(* Aggregation *)

RECURSIVE sum_column(_, _, _)
\* df[col].sum(), from row i on
sum_column(frame, col, i) ==
    IF i > Len(frame.rows) THEN 0
    ELSE cell(frame, frame.rows[i], col).n + sum_column(frame, col, i + 1)

amount_sum(frame, col) == sum_column(frame, col, 1)

RECURSIVE sorted_keys_descending(_)
\* the group keys sorted with ascending=False
sorted_keys_descending(keys) ==
    IF keys = {} THEN <<>>
    ELSE LET k == CHOOSE x \in keys : \A y \in keys : x >= y
         IN <<k>> \o sorted_keys_descending(keys \ {k})

RECURSIVE sorted_keys(_)
\* the group keys in ascending order (groupby sorts its keys)
sorted_keys(keys) ==
    IF keys = {} THEN <<>>
    ELSE LET k == CHOOSE x \in keys : \A y \in keys : x <= y
         IN <<k>> \o sorted_keys(keys \ {k})

RECURSIVE sum_group(_, _, _, _)
\* the sum of column col over the rows of a group (their positions), from row i on
sum_group(frame, col, members, i) ==
    IF i > Len(frame.rows) THEN 0
    ELSE (IF i \in members THEN cell(frame, frame.rows[i], col).n ELSE 0)
         + sum_group(frame, col, members, i + 1)

\* df.groupby(df[date_col].dt.to_period("M"))[amount_col].sum():
\* rows whose key is NaT belong to no group
groupby_month(frame, dcol, acol) ==
    LET dated == {i \in 1..Len(frame.rows) : ~isna(cell(frame, frame.rows[i], dcol))}
        keys == sorted_keys({to_period_M(cell(frame, frame.rows[i], dcol).n) : i \in dated})
    IN [g \in 1..Len(keys) |->
          [key |-> keys[g],
           total |-> sum_group(frame, acol,
                        {i \in dated : to_period_M(cell(frame, frame.rows[i], dcol).n)
                                          = keys[g]}, 1)]]

\* df.groupby(category_col)[amount_col].sum(): rows whose key is NaN belong to
\* no group, the keys are sorted
groupby_category(frame, ccol, acol) ==
    LET keyed == {i \in 1..Len(frame.rows) : ~isna(cell(frame, frame.rows[i], ccol))}
        ranks == sorted_keys({CategoryRank[cell(frame, frame.rows[i], ccol).s] : i \in keyed})
    IN [g \in 1..Len(ranks) |->
          [key |-> CHOOSE s \in DOMAIN CategoryRank : CategoryRank[s] = ranks[g],
           total |-> sum_group(frame, acol,
                        {i \in keyed : CategoryRank[cell(frame, frame.rows[i], ccol).s]
                                          = ranks[g]}, 1)]]

RECURSIVE sum_totals(_, _)
sum_totals(groups, i) ==
    IF i > Len(groups) THEN 0 ELSE groups[i].total + sum_totals(groups, i + 1)

\* monthly_expense.mean(): NaN for an empty series, else sum / count
mean(groups) ==
    IF Len(groups) = 0 THEN [t |-> "nan", num |-> 0, den |-> 1]
    ELSE [t |-> "num", num |-> sum_totals(groups, 1), den |-> Len(groups)]

NoAverage == [t |-> "unset", num |-> 0, den |-> 1]

-----------------------------------------------------------------------------
(* Filters *)

NoFilters == [has_range |-> FALSE, start |-> 0, end |-> 0, selected_cat |-> {}]

\* the lower bound taken from the frame, exclusive: df[date_col] > df[date_col].min()
date_filter_after_min(frame, dcol, start, end) ==
    [frame EXCEPT !.rows = SelectSeq(frame.rows,
        LAMBDA r : /\ ~isna(cell(frame, r, dcol))
                   /\ \E r2 \in {frame.rows[i] : i \in 1..Len(frame.rows)} :
                         /\ ~isna(cell(frame, r2, dcol))
                         /\ cell(frame, r2, dcol).n < cell(frame, r, dcol).n
                   /\ cell(frame, r, dcol).n <= end)]

\* df[(df[date_col] >= start) & (df[date_col] <= end)]: a comparison with NaT is False
date_filter(frame, dcol, start, end) ==
    [frame EXCEPT !.rows = SelectSeq(frame.rows,
        LAMBDA r : /\ ~isna(cell(frame, r, dcol))
                   /\ cell(frame, r, dcol).n >= start
                   /\ cell(frame, r, dcol).n <= end)]

\* df[df[category_col].isin(selected_cat)]
category_filter(frame, ccol, selected) ==
    [frame EXCEPT !.rows = SelectSeq(frame.rows,
        LAMBDA r : /\ ~isna(cell(frame, r, ccol))
                   /\ cell(frame, r, ccol).s \in selected)]

\* lines 155-169 for given widget values
apply_filters(frame, dcol, ccol, fs) ==
    LET ranged == IF dcol # None /\ fs.has_range
                  THEN date_filter(frame, dcol, fs.start, fs.end) ELSE frame
    IN IF ccol # None /\ fs.selected_cat # {}
       THEN category_filter(ranged, ccol, fs.selected_cat) ELSE ranged

valid_dates(frame, dcol) ==
    {cell(frame, frame.rows[i], dcol).n :
        i \in {j \in 1..Len(frame.rows) : ~isna(cell(frame, frame.rows[j], dcol))}}

unique(frame, ccol) ==
    {cell(frame, frame.rows[i], ccol).s :
        i \in {j \in 1..Len(frame.rows) : ~isna(cell(frame, frame.rows[j], ccol))}}

-----------------------------------------------------------------------------
(* The uploaded files *)

h_Date == <<"D", "a", "t", "e">>
h_when == <<"w", "h", "e", "n">>
h_Amount == <<"A", "m", "o", "u", "n", "t">>
h_amt == <<"a", "m", "t">>
h_Category == <<"C", "a", "t", "e", "g", "o", "r", "y">>

\* A header row: a date-like, an amount-like and a category column, either
\* named so that load_csv detects both or so that it detects neither.
Headers == {<<h_Date, h_Amount, h_Category>>, <<h_when, h_amt, h_Category>>}

DateTexts == {"bad"} \cup DOMAIN DateLit
AmountTexts == {"bad"} \cup DOMAIN NumLit
CategoryTexts == {""} \cup DOMAIN CategoryRank

RawRows == {<<d, a, c>> : d \in DateTexts, a \in AmountTexts, c \in CategoryTexts}

RawTables == UNION {[1..n -> RawRows] : n \in 0..MaxRows}

NoUpload == [kind |-> "none", header |-> <<>>, rows |-> <<>>]
Unreadable == [kind |-> "unreadable", header |-> <<>>, rows |-> <<>>]
CsvFiles == {[kind |-> "csv", header |-> h, rows |-> t] : h \in Headers, t \in RawTables}

-----------------------------------------------------------------------------
(* The run of the script *)

NoSuggestion == [date |-> None, amount |-> None, category |-> None]

PipeInit ==
    /\ pc = "idle"
    /\ file = NoUpload
    /\ df = NoFrame
    /\ suggested = NoSuggestion
    /\ date_col = None
    /\ amount_col = None
    /\ category_col = None
    /\ filters = NoFilters
    /\ total_amount = Unset
    /\ num_transactions = Unset
    /\ monthly_expense = <<>>
    /\ avg_expense = NoAverage
    /\ category_totals = <<>>
    /\ rendered = <<>>
    /\ messages = <<>>

SuggestIdle ==
    /\ s_cols = <<>>
    /\ s_keywords = <<>>
    /\ s_result = None
    /\ s_done = FALSE

Init == PipeInit /\ SuggestIdle

\* line 33 with no file, lines 241-242
NoFile ==
    /\ pc = "idle"
    /\ messages' = Append(messages, "info_upload_csv")
    /\ pc' = "done"
    /\ UNCHANGED <<file, df, suggested, date_col, amount_col, category_col, filters,
                   total_amount, num_transactions, monthly_expense, avg_expense,
                   category_totals, rendered>>
    /\ UNCHANGED suggestVars

\* line 33: the user uploads a file
Upload ==
    /\ pc = "idle"
    /\ \E f \in CsvFiles \cup {Unreadable} : file' = f
    /\ pc' = "load"
    /\ UNCHANGED <<df, suggested, date_col, amount_col, category_col, filters,
                   total_amount, num_transactions, monthly_expense, avg_expense,
                   category_totals, rendered, messages>>
    /\ UNCHANGED suggestVars

\* whether pd.read_csv raises on the file
read_fails(f) == f.kind = "unreadable"

\* load_csv on the uploaded file.  Lines 61-67, headed MAIN DASHBOARD IF FILE
\* EXISTS, are blank in the script and line 74 reads df: df is taken to be
\* load_csv(file), and a None frame (the error of line 58) ends the run, as
\* nothing below can be computed without a frame.
LoadCsv ==
    /\ pc = "load"
    /\ IF read_fails(file)
       THEN /\ messages' = Append(messages, "error_reading_file")
            /\ df' = NoFrame
            /\ pc' = "done"
       ELSE /\ df' = load_csv(file)
            /\ pc' = "select"
            /\ UNCHANGED messages
    /\ UNCHANGED <<file, suggested, date_col, amount_col, category_col, filters,
                   total_amount, num_transactions, monthly_expense, avg_expense,
                   category_totals, rendered>>
    /\ UNCHANGED suggestVars

\* lines 73-93: the suggestions and the three selectboxes.  The user's choice
\* for a role is None or the column that holds that kind of data.
SelectColumns ==
    /\ pc = "select"
    /\ suggested' = [date |-> autosuggest(df.columns, date_keywords),
                     amount |-> autosuggest(df.columns, amount_keywords),
                     category |-> autosuggest(df.columns, category_keywords)]
    /\ \E d \in {None, df.columns[1]}, a \in {None, df.columns[2]},
          c \in {None, df.columns[3]} :
            /\ date_col' = d
            /\ amount_col' = a
            /\ category_col' = c
    /\ pc' = "map"
    /\ UNCHANGED <<file, df, filters, total_amount, num_transactions,
                   monthly_expense, avg_expense, category_totals, rendered, messages>>
    /\ UNCHANGED suggestVars

\* lines 96-106: the chosen columns coerced
convert_selected(frame, d, a) ==
    LET dated == IF d # None
                 THEN convert_columns(frame, {d}, "datetime")
                 ELSE frame
    IN IF a # None
       THEN convert_columns(dated, {a}, "numeric")
       ELSE dated

\* line 109: `if not amount_col`
amount_missing(a) == a = None

\* st.stop() left out: the script goes on to the KPI block
after_amount_error_no_stop == "kpi"

\* line 111: st.stop() ends the run
after_amount_error == "stopped"

\* the dropna of line 114 left out
drop_missing_amount_skipped(frame, a) == frame

\* line 114
drop_missing_amount(frame, a) == dropna_subset(frame, a)

\* lines 96-114
ApplyMapping ==
    /\ pc = "map"
    /\ IF amount_missing(amount_col)
       THEN /\ df' = convert_selected(df, date_col, amount_col)
            /\ messages' = Append(messages, "error_select_amount_column")
            /\ pc' = after_amount_error
       ELSE /\ df' = drop_missing_amount(convert_selected(df, date_col, amount_col),
                                         amount_col)
            /\ pc' = "kpi"
            /\ UNCHANGED messages
    /\ UNCHANGED <<file, suggested, date_col, amount_col, category_col, filters,
                   total_amount, num_transactions, monthly_expense, avg_expense,
                   category_totals, rendered>>
    /\ UNCHANGED suggestVars

\* lines 117-123
KpiSummary ==
    /\ pc = "kpi"
    /\ total_amount' = Num(amount_sum(df, amount_col))
    /\ num_transactions' = Num(Len(df.rows))
    /\ rendered' = Append(rendered, "kpi_summary")
    /\ pc' = "insights"
    /\ UNCHANGED <<file, df, suggested, date_col, amount_col, category_col, filters,
                   monthly_expense, avg_expense, category_totals, messages>>
    /\ UNCHANGED suggestVars

\* a chart attempted when `wanted`: drawn, or the exception caught and reported
guarded_chart(wanted, ok, views, view) ==
    IF wanted /\ ok THEN Append(views, view) ELSE views

guarded_warning(wanted, ok, msgs, warning) ==
    IF wanted /\ ~ok THEN Append(msgs, warning) ELSE msgs

\* lines 126-143: each chart inside try/except; plotly draws it or raises
VisualInsights ==
    /\ pc = "insights"
    /\ \E pie_ok \in (IF category_col # None THEN BOOLEAN ELSE {TRUE}),
          line_ok \in (IF date_col # None THEN BOOLEAN ELSE {TRUE}) :
            /\ rendered' = guarded_chart(date_col # None, line_ok,
                              guarded_chart(category_col # None, pie_ok,
                                            rendered, "pie_category"),
                              "time_series")
            /\ messages' = guarded_warning(date_col # None, line_ok,
                              guarded_warning(category_col # None, pie_ok,
                                              messages, "warning_pie_chart"),
                              "warning_time_series")
    /\ pc' = "data"
    /\ UNCHANGED <<file, df, suggested, date_col, amount_col, category_col, filters,
                   total_amount, num_transactions, monthly_expense, avg_expense,
                   category_totals>>
    /\ UNCHANGED suggestVars

\* lines 146-148
DataMapped ==
    /\ pc = "data"
    /\ rendered' = rendered \o <<"dataframe_mapped", "download_mapped">>
    /\ pc' = "filters"
    /\ UNCHANGED <<file, df, suggested, date_col, amount_col, category_col, filters,
                   total_amount, num_transactions, monthly_expense, avg_expense,
                   category_totals, messages>>
    /\ UNCHANGED suggestVars

\* the dates the user picks from in the date range widget
PickableDates == {DateLit["2024-01-05"], DateLit["2024-02-01"]}

\* lines 153-169.  st.date_input is given [min, max] of the date column; with
\* no valid date both are NaT, and the widget either raises or returns a range.
SidebarFilters ==
    /\ pc = "filters"
    /\ \/ /\ date_col # None
          /\ valid_dates(df, date_col) = {}
          /\ messages' = Append(messages, "exception_date_input")
          /\ pc' = "crashed"
          /\ UNCHANGED <<df, filters>>
       \/ /\ \E start \in PickableDates, end \in PickableDates :
                /\ start <= end
                /\ LET ranged == IF date_col # None
                                 THEN date_filter(df, date_col, start, end) ELSE df
                   IN \E selected \in (IF category_col # None
                                       THEN SUBSET unique(ranged, category_col)
                                       ELSE {{}}) :
                        /\ filters' = [has_range |-> date_col # None,
                                       start |-> IF date_col # None THEN start ELSE 0,
                                       end |-> IF date_col # None THEN end ELSE 0,
                                       selected_cat |-> selected]
                        /\ df' = apply_filters(df, date_col, category_col, filters')
          /\ pc' = "metrics"
          /\ UNCHANGED messages
    /\ UNCHANGED <<file, suggested, date_col, amount_col, category_col,
                   total_amount, num_transactions, monthly_expense, avg_expense,
                   category_totals, rendered>>
    /\ UNCHANGED suggestVars

\* lines 174-184: df[date_col] with date_col None raises KeyError after line 174
KpiMetrics ==
    /\ pc = "metrics"
    /\ total_amount' = Num(amount_sum(df, amount_col))
    /\ IF date_col = None
       THEN /\ messages' = Append(messages, "exception_KeyError")
            /\ pc' = "crashed"
            /\ UNCHANGED <<monthly_expense, avg_expense, rendered>>
       ELSE /\ monthly_expense' = groupby_month(df, date_col, amount_col)
            /\ avg_expense' = mean(monthly_expense')
            /\ rendered' = Append(rendered, "metric_cards")
            /\ pc' = "analytics"
            /\ UNCHANGED messages
    /\ UNCHANGED <<file, df, suggested, date_col, amount_col, category_col, filters,
                   num_transactions, category_totals>>
    /\ UNCHANGED suggestVars

\* the charts of lines 194-226 in script order
analytics_charts(d, c) ==
    (IF d # None THEN <<"monthly_trend">> ELSE <<>>)
    \o (IF c # None THEN <<"pie_distribution", "bar_category">> ELSE <<>>)

\* lines 191-226: no try/except; the first chart plotly cannot draw ends the run
AnalyticsOverview ==
    /\ pc = "analytics"
    /\ LET charts == analytics_charts(date_col, category_col)
       IN \E drawn \in 0..Len(charts) :
            /\ rendered' = rendered \o SubSeq(charts, 1, drawn)
            /\ category_totals' =
                  IF \E i \in 1..Len(charts) :
                        i <= drawn + 1 /\ charts[i] = "bar_category"
                  THEN groupby_category(df, category_col, amount_col)
                  ELSE category_totals
            /\ IF drawn = Len(charts)
               THEN pc' = "table" /\ UNCHANGED messages
               ELSE /\ messages' = Append(messages, "exception_chart")
                    /\ pc' = "crashed"
    /\ UNCHANGED <<file, df, suggested, date_col, amount_col, category_col, filters,
                   total_amount, num_transactions, monthly_expense, avg_expense>>
    /\ UNCHANGED suggestVars

\* lines 231-239
TransactionTable ==
    /\ pc = "table"
    /\ rendered' = rendered \o <<"transaction_table", "download_filtered">>
    /\ pc' = "done"
    /\ UNCHANGED <<file, df, suggested, date_col, amount_col, category_col, filters,
                   total_amount, num_transactions, monthly_expense, avg_expense,
                   category_totals, messages>>
    /\ UNCHANGED suggestVars

Next ==
    \/ NoFile
    \/ Upload
    \/ LoadCsv
    \/ SelectColumns
    \/ ApplyMapping
    \/ KpiSummary
    \/ VisualInsights
    \/ DataMapped
    \/ SidebarFilters
    \/ KpiMetrics
    \/ AnalyticsOverview
    \/ TransactionTable

Spec == Init /\ [][Next]_vars

-----------------------------------------------------------------------------
(* autosuggest on arbitrary column and keyword lists *)

Alphabet == {"a", "b"}

ColumnNames == UNION {[1..n -> Alphabet] : n \in 1..2}
Keywords == UNION {[1..n -> Alphabet] : n \in 0..2}

ColumnLists == UNION {[1..n -> ColumnNames] : n \in 0..MaxCols}
KeywordLists == UNION {[1..n -> Keywords] : n \in 0..MaxKeywords}

SuggestInit ==
    /\ PipeInit
    /\ s_cols \in ColumnLists
    /\ s_keywords \in KeywordLists
    /\ s_result = None
    /\ s_done = FALSE

CallAutosuggest ==
    /\ ~s_done
    /\ s_result' = autosuggest(s_cols, s_keywords)
    /\ s_done' = TRUE
    /\ UNCHANGED <<s_cols, s_keywords>>
    /\ UNCHANGED pipeVars

SuggestNext == CallAutosuggest

SuggestSpec == SuggestInit /\ [][SuggestNext]_vars

-----------------------------------------------------------------------------
(* What the properties below speak of *)

indices(frame) == [i \in 1..Len(frame.rows) |-> frame.rows[i].idx]

shown(view) == \E i \in 1..Len(rendered) : rendered[i] = view

said(message) == \E i \in 1..Len(messages) : messages[i] = message

\* the text of row i of the uploaded file
raw_date(i) == file.rows[i][1]
raw_amount(i) == file.rows[i][2]
raw_category(i) == file.rows[i][3]

date_parses(i) == raw_date(i) \in DOMAIN DateLit
amount_parses(i) == raw_amount(i) \in DOMAIN NumLit

\* the mapping has been applied to a loaded frame
Mapped == df.ok /\ pc \notin {"select", "map"}

\* the run is over
Ended == pc \in {"done", "stopped", "crashed"}

\* the frame before the sidebar filters
normalized == drop_missing_amount(convert_selected(load_csv(file), date_col, amount_col),
                                  amount_col)

\* the derived views of a complete run, in script order
expected_views(d, c) ==
    <<"kpi_summary">>
    \o (IF c # None THEN <<"pie_category">> ELSE <<>>)
    \o (IF d # None THEN <<"time_series">> ELSE <<>>)
    \o <<"dataframe_mapped", "download_mapped", "metric_cards">>
    \o analytics_charts(d, c)
    \o <<"transaction_table", "download_filtered">>

failures ==
    Cardinality({i \in 1..Len(messages) :
        messages[i] \in {"warning_pie_chart", "warning_time_series",
                         "exception_KeyError", "exception_chart"}})

-----------------------------------------------------------------------------
(* C1 *)

kw_matches(j) == \E i \in 1..Len(s_cols) : contains(s_cols[i], s_keywords[j])

\* C1: autosuggest returns a column of the list or None; None exactly when no
\* keyword is a substring of any column; otherwise the first column, in column
\* order, that contains the first keyword, in keyword order, that matches any
\* column.
C1_SuggestFirstKeywordFirstColumn ==
    s_done =>
        /\ s_result = None \/ \E i \in 1..Len(s_cols) : s_cols[i] = s_result
        /\ s_result = None <=> \A j \in 1..Len(s_keywords) : ~kw_matches(j)
        /\ \A j \in 1..Len(s_keywords) :
              (kw_matches(j) /\ \A j2 \in 1..(j - 1) : ~kw_matches(j2)) =>
                 \E i \in 1..Len(s_cols) :
                    /\ s_result = s_cols[i]
                    /\ contains(s_cols[i], s_keywords[j])
                    /\ \A i2 \in 1..(i - 1) : ~contains(s_cols[i2], s_keywords[j])

\* A later keyword matches the first column, the first keyword only the second
\* column, and the second column is returned.
C1_Witness ==
    /\ s_done
    /\ Len(s_cols) = 2 /\ Len(s_keywords) = 2
    /\ ~contains(s_cols[1], s_keywords[1])
    /\ contains(s_cols[2], s_keywords[1])
    /\ contains(s_cols[1], s_keywords[2])
    /\ s_cols[1] # s_cols[2]
    /\ s_result = s_cols[2]

-----------------------------------------------------------------------------
(* C2 *)

\* C2: once the mapping is applied with no amount column chosen, the run has
\* stopped on the error message whatever the date and category choices and the
\* table are: no KPI, no chart, no table and no download was produced, and the
\* frame still holds every row that load_csv returned.
C2_MissingAmountStops ==
    (Mapped /\ amount_col = None) =>
        /\ pc = "stopped"
        /\ messages = <<"error_select_amount_column">>
        /\ rendered = <<>>
        /\ total_amount = Unset /\ num_transactions = Unset
        /\ avg_expense = NoAverage /\ monthly_expense = <<>>
        /\ category_totals = <<>>
        /\ indices(df) = indices(load_csv(file))

\* The run stopped with the date and the category mapped, on a table of two
\* rows, one of them with an amount that does not parse.
C2_Witness ==
    /\ pc = "stopped"
    /\ amount_col = None /\ date_col # None /\ category_col # None
    /\ Len(df.rows) = 2
    /\ \E i \in 1..Len(file.rows) : ~amount_parses(i)

-----------------------------------------------------------------------------
(* C3 *)

-----------------------------------------------------------------------------
(* C4 *)

\* C4: with a date column mapped, a row of the file whose date does not parse,
\* whose amount is a number and whose category is present is in the frame the
\* first KPI block counts, with its date missing.
C4_BadDateRowKept ==
    (pc = "insights" /\ date_col # None) =>
        \A i \in 1..Len(file.rows) :
            (~date_parses(i) /\ amount_parses(i) /\ raw_category(i) # "") =>
                /\ \E k \in 1..Len(df.rows) :
                      /\ df.rows[k].idx = i - 1
                      /\ isna(cell(df, df.rows[k], date_col))
                /\ num_transactions.n >= 1
                /\ total_amount.n >= NumLit[raw_amount(i)]

-----------------------------------------------------------------------------
(* C5 *)

\* C5: an unreadable file, a file with no data row and a missing amount
\* mapping each end the run on a blocking message with no derived view
\* produced.
C5_ValidationErrorsHalt ==
    /\ (file.kind = "unreadable" /\ pc # "load") =>
          (pc = "done" /\ rendered = <<>> /\ said("error_reading_file"))
    /\ (file.kind = "csv" /\ Len(file.rows) = 0 /\ pc # "load") =>
          (rendered = <<>> /\ (Ended => pc = "stopped"))
    /\ (Mapped /\ amount_col = None) =>
          (pc = "stopped" /\ rendered = <<>> /\ said("error_select_amount_column"))

-----------------------------------------------------------------------------
(* C6 *)

\* C6: the frame the sidebar filters leave is a fixed point of the same
\* filters: applying the same date range and category selection to it again
\* yields the same rows.
C6_FiltersIdempotent ==
    pc = "metrics" =>
        apply_filters(df, date_col, category_col, filters) = df

\* Both filters are set and together they removed a row and kept a row.
C6_Witness ==
    /\ pc = "metrics"
    /\ filters.has_range /\ filters.selected_cat # {}
    /\ Len(df.rows) >= 1
    /\ Len(df.rows) < Len(normalized.rows)
    /\ Len(date_filter(normalized, date_col, filters.start, filters.end).rows)
          < Len(normalized.rows)

-----------------------------------------------------------------------------
(* C7 *)

\* C7: the monthly aggregate of the second KPI block is in chronological
\* order of month, and its totals add up to the total amount of the same
\* filtered frame.
C7_MonthlyOrderedAndComplete ==
    shown("metric_cards") =>
        /\ \A i \in 1..Len(monthly_expense) : \A j \in 1..Len(monthly_expense) :
              i < j => monthly_expense[i].key <= monthly_expense[j].key
        /\ sum_totals(monthly_expense, 1) = total_amount.n

\* Two months, the later one first in the frame.
C7_Witness ==
    /\ shown("metric_cards")
    /\ Len(monthly_expense) = 2
    /\ Len(df.rows) = 2
    /\ cell(df, df.rows[1], date_col).n > cell(df, df.rows[2], date_col).n
    /\ total_amount.n = 200

-----------------------------------------------------------------------------
(* C8 *)

\* C8: a run over a frame with at least one row with a valid amount, in
\* which the date range widget did not raise, and with no date column or no
\* valid date in the frame, ends with the KPI cards shown, the monthly average
\* not a number, and the total and the count those of all rows with a valid
\* amount.
C8_AverageNotApplicable ==
    (/\ Ended /\ Mapped /\ amount_col # None
     /\ Len(normalized.rows) >= 1
     /\ ~said("exception_date_input")
     /\ (date_col = None \/ valid_dates(normalized, date_col) = {})) =>
        /\ shown("metric_cards")
        /\ avg_expense.t = "nan"
        /\ total_amount.n = amount_sum(normalized, amount_col)
        /\ num_transactions.n = Len(normalized.rows)

-----------------------------------------------------------------------------
(* C9 *)

\* what row i of the file adds to the category totals if no row is dropped for
\* its category: its amount, when it is a number and the row passes the filters
counted_amount(i) ==
    IF /\ amount_parses(i)
       /\ date_parses(i)
       /\ DateLit[raw_date(i)] >= filters.start
       /\ DateLit[raw_date(i)] <= filters.end
    THEN NumLit[raw_amount(i)] ELSE 0

RECURSIVE counted_total(_)
counted_total(i) ==
    IF i > Len(file.rows) THEN 0 ELSE counted_amount(i) + counted_total(i + 1)

\* C9: with no category selected in the filter, and a valid date in the frame
\* the date range widget was given, the per-category totals of the bar chart
\* account for every row of the file with a valid amount and a date in the
\* chosen range, the rows with an empty category included, and add up to the
\* total amount.
C9_MissingCategoryGrouped ==
    (/\ shown("bar_category")
     /\ filters.selected_cat = {}
     /\ valid_dates(normalized, date_col) # {}) =>
        /\ sum_totals(category_totals, 1) = counted_total(1)
        /\ sum_totals(category_totals, 1) = total_amount.n

-----------------------------------------------------------------------------
(* C10 *)

\* C10: in a run over a frame with at least one row with a valid amount, in
\* which the date range widget did not raise, every derived view of the script
\* is produced except those that themselves failed.
C10_FailuresContained ==
    (/\ Ended /\ Mapped /\ amount_col # None
     /\ Len(normalized.rows) >= 1
     /\ ~said("exception_date_input")) =>
        Len(expected_views(date_col, category_col)) - Len(rendered) <= failures

====
